---- MODULE Spec2Model ----
(***************************************************************************)
(* Model of the Boletin Concursal acquisition pipeline                     *)
(* (src/src/scraper/main.py, src/src/scraper/fallback.py) and of the       *)
(* record filters of the dashboard (src/streamlit_app.py).                 *)
(*                                                                         *)
(* Spec       : one call of update_data, stepped through the browser tier  *)
(*              (download_csv_with_selenium) and the HTTP tier             *)
(*              (download_csv_direct), over a small data directory.        *)
(* FilterSpec : the four filter functions applied to bounded datasets.     *)
(***************************************************************************)
EXTENDS Integers, Sequences, FiniteSets, TLC

VARIABLES
    files,              \* the data directory: file name -> [size, ok, src]
    files0,             \* the data directory when update_data was called
    pc,                 \* position inside update_data and its tiers
    force_update,       \* the argument of update_data
    result,             \* what update_data returned
    trace,              \* the tiers invoked and what each returned, in order
    session,            \* the browser session: "none", "live" or "quit"
    nav,                \* what happened between page load and click
    initial_files,      \* os.listdir("data") taken right before the click
    i,                  \* loop variable of the download polling loop
    download_detected,  \* the local of that name in download_csv_with_selenium
    grew,               \* the directory changed during every iteration so far
    k,                  \* index of the next GET probe / POST variant
    requests_log,       \* every HTTP request issued, in order
    last,               \* the last HTTP response handled and what was done with it
    df,                 \* the dataset handed to a filter function
    call,               \* the last filter call: function and arguments
    out,                \* the rows that call returned
    memo,               \* an earlier filter call, what it returned, and
                        \* whether a different call was made since
    session_state       \* st.session_state: the force_update entry

pipeVars == <<files, files0, pc, force_update, result, trace, session, nav,
              initial_files, i, download_detected, grew, k, requests_log, last>>
filterVars == <<df, call, out, memo>>
appVars == <<session_state>>
vars == <<files, files0, pc, force_update, result, trace, session, nav,
          initial_files, i, download_detected, grew, k, requests_log, last,
          df, call, out, memo, session_state>>

(***************************************************************************)
(* The data directory                                                      *)
(***************************************************************************)
\* csv_path = "data/boletin_concursal.csv"
CACHE == "boletin_concursal.csv"
\* a download that the site or the browser named differently
ALT == "procedimientos.csv"
\* the browser's temporary file of a download in progress
TMP == "procedimientos.crdownload"
Names == {CACHE, ALT, TMP}

\* file.endswith('.csv') and not file.startswith('.')
IsCsvName(f) == f \in {CACHE, ALT}

\* sizes in bytes on both sides of the three thresholds of the code
Sizes == {101, 10000, 10001, 20000}

FileRec(size, ok, src) == [size |-> size, ok |-> ok, src |-> src]

\* os.path.exists("data/" + f)
Exists(fs, f) == f \in DOMAIN fs

\* the directory fs with file f holding rec
WithFile(fs, f, rec) == [n \in (DOMAIN fs) \cup {f} |-> IF n = f THEN rec ELSE fs[n]]

\* the directory fs without file f
WithoutFile(fs, f) == [n \in (DOMAIN fs) \ {f} |-> fs[n]]

\* os.rename(src, dst): dst is replaced, src is gone
Rename(fs, src, dst) == WithoutFile(WithFile(fs, dst, fs[src]), src)

\* shutil.copy2(src, dst)
Copy2(fs, src, dst) == WithFile(fs, dst, fs[src])

(***************************************************************************)
(* get_csv_data, has_existing_data                                         *)
(***************************************************************************)
Absent == [kind |-> "None"]
Dataset(rec) == [kind |-> "DataFrame", of |-> rec]
NoResult == [kind |-> "running"]

\* pd.read_csv succeeds on a file whose content is a table (ok) and raises
\* otherwise; the exception is caught and None returned
get_csv_data(fs) ==
    IF Exists(fs, CACHE)
    THEN IF fs[CACHE].ok THEN Dataset(fs[CACHE]) ELSE Absent
    ELSE Absent

MinCacheSize == 100

\* a cache check with the threshold of the download loop (1000 bytes)
has_existing_data_over_1000(fs) ==
    IF Exists(fs, CACHE)
    THEN fs[CACHE].size > 1000
    ELSE FALSE

has_existing_data(fs) ==
    IF Exists(fs, CACHE)
    THEN fs[CACHE].size > MinCacheSize
    ELSE FALSE

(***************************************************************************)
(* The browser and the site, as far as the browser tier can observe them   *)
(***************************************************************************)
\* The sizes a file of the given size can have grown to.  A file of 20000
\* bytes or more that keeps growing is shown alternating between 20000 and
\* 20001: the code compares a size only with the size it read before and
\* with the thresholds.
Grown(size) ==
    {t \in Sizes : t > size}
    \cup (IF size = 20000 THEN {20001} ELSE IF size = 20001 THEN {20000} ELSE {})

\* What the browser may do to the data directory while the tier sleeps:
\* nothing, start writing one new file (under a name that is free), or
\* append to the file it is writing.  At most one file is downloaded.
EnvStep(fs) ==
    {fs}
    \cup (IF \E n \in DOMAIN fs : fs[n].src = "browser"
          THEN {}
          ELSE {WithFile(fs, n, FileRec(s, ok, "browser")) :
                    n \in Names \ DOMAIN fs, s \in Sizes, ok \in BOOLEAN})
    \cup UNION {{WithFile(fs, n, FileRec(s, fs[n].ok, "browser")) :
                    s \in Grown(fs[n].size)} :
                n \in {m \in DOMAIN fs : fs[m].src = "browser"}}

NoNav == [clickable |-> FALSE, click |-> "none", direct |-> "none", js |-> "not_attempted"]

(***************************************************************************)
(* update_data                                                             *)
(***************************************************************************)
\* the locals of download_csv_with_selenium and download_csv_direct
\* before the tier runs and after it returned
TierLocalsReset ==
    /\ nav' = NoNav
    /\ initial_files' = {}
    /\ i' = 0
    /\ download_detected' = FALSE
    /\ grew' = TRUE

\* lines 224-229: the cache-hit path, else on to the browser tier
update_data(f) ==
    /\ pc = "idle"
    /\ force_update' = f
    /\ files0' = files
    /\ trace' = <<>>
    /\ IF ~f /\ has_existing_data(files)
       THEN /\ pc' = "done"
            /\ result' = get_csv_data(files)
       ELSE /\ pc' = "selenium"
            /\ result' = NoResult
    /\ UNCHANGED <<files, session, nav, initial_files, i, download_detected, grew,
                   k, requests_log, last>>
    /\ UNCHANGED filterVars
    /\ UNCHANGED appVars

\* lines 233-242: download_csv_with_selenium returned ret ("True", "False")
\* or raised ("raised"), leaving the directory fs and the session sess
\* an update_data without the handler of line 239
SeleniumReturnsOrRaises(ret, fs, sess, tr) ==
    /\ files' = fs
    /\ session' = sess
    /\ trace' = Append(tr, "selenium:" \o ret)
    /\ IF ret = "True"
       THEN /\ pc' = "done"
            /\ result' = get_csv_data(fs)
       ELSE IF ret = "raised"
       THEN /\ pc' = "done"
            /\ result' = [kind |-> "raised"]
       ELSE /\ pc' = "fallback"
            /\ result' = result

SeleniumAlwaysFallsBack(ret, fs, sess, tr) ==
    /\ files' = fs
    /\ session' = sess
    /\ trace' = Append(tr, "selenium:" \o ret)
    /\ pc' = "fallback"
    /\ result' = result

SeleniumReturns(ret, fs, sess, tr) ==
    /\ files' = fs
    /\ session' = sess
    /\ trace' = Append(tr, "selenium:" \o ret)
    /\ IF ret = "True"
       THEN /\ pc' = "done"
            /\ result' = get_csv_data(fs)
       ELSE /\ pc' = "fallback"
            /\ result' = result

\* lines 585-590: driver.quit() in the finally clause; an exception raised
\* by quit is logged and the session is not known to have ended
Quit(q) == IF q = "ok" THEN "quit" ELSE "live"

(***************************************************************************)
(* download_csv_with_selenium                                              *)
(***************************************************************************)
\* lines 281-303 and setup_chrome_driver (lines 25-75)
SeleniumStart ==
    /\ pc = "selenium"
    /\ \E o \in {"makedirs_raises", "not_writable", "chrome_fails",
                 "blank_fails", "driver"} :
        LET tr == Append(trace, "selenium") IN
        CASE o = "makedirs_raises" ->
                \* os.makedirs outside any try: "data" is no directory
                /\ DOMAIN files = {}
                /\ SeleniumReturns("raised", files, session, tr)
          [] o = "not_writable" ->
                SeleniumReturns("False", files, session, tr)
          [] o = "chrome_fails" ->
                \* webdriver.Chrome raises: no session, setup returns None
                SeleniumReturns("False", files, session, tr)
          [] o = "blank_fails" ->
                \* driver.get("about:blank") raises: setup returns None
                SeleniumReturns("False", files, "live", tr)
          [] o = "driver" ->
                /\ session' = "live"
                /\ trace' = tr
                /\ pc' = "navigate"
                /\ UNCHANGED <<files, result>>
    /\ UNCHANGED <<files0, force_update, nav, initial_files, i,
                   download_detected, grew, k, requests_log, last>>
    /\ UNCHANGED filterVars
    /\ UNCHANGED appVars

\* lines 305-428: page load, button lookup, clickable wait, click
\* a tier that gives up when the button did not become clickable
click_outcome_needs_clickable(clickable, click) ==
    IF ~clickable \/ click = "failed" THEN "False" ELSE "wait"

\* lines 389-421: a button that did not become clickable is clicked anyway;
\* the tier returns False only when the click and the JavaScript click fail
click_outcome(clickable, click) ==
    IF click = "failed" THEN "False" ELSE "wait"

\* a JavaScript click that is made whatever the regular click did
js_click_always(direct, js_result) == js_result

\* lines 409-421: driver.execute_script("arguments[0].click();", ...) is in
\* the except branch of clickable_button.click()
js_click(direct, js_result) ==
    IF direct = "raised" THEN js_result ELSE "not_attempted"

\* lines 409-421: the click that went through, if any
click_result(direct, js) ==
    IF direct = "ok" THEN "direct" ELSE IF js = "ok" THEN "js" ELSE "failed"

SeleniumNavigate ==
    /\ pc = "navigate"
    /\ \E o \in {"unexpected", "page_fails", "body_fails", "no_button", "button"},
          q \in {"ok", "raises"} :
        CASE o \in {"unexpected", "page_fails", "body_fails", "no_button"} ->
                /\ SeleniumReturns("False", files, Quit(q), trace)
                /\ UNCHANGED <<nav, initial_files, i, download_detected, grew>>
          [] o = "button" ->
                \E clickable \in BOOLEAN, direct \in {"ok", "raised"},
                   js_result \in {"ok", "raised"} :
                    LET js == js_click(direct, js_result)
                        click == click_result(direct, js)
                    IN
                    /\ nav' = [clickable |-> clickable, click |-> click,
                               direct |-> direct, js |-> js]
                    /\ initial_files' = DOMAIN files
                    /\ IF click_outcome(clickable, click) = "False"
                       THEN SeleniumReturns("False", files, Quit(q), trace)
                       ELSE /\ pc' = "poll"
                            /\ UNCHANGED <<files, session, trace, result>>
                    /\ i' = 0
                    /\ download_detected' = FALSE
                    /\ grew' = TRUE
    /\ UNCHANGED <<files0, force_update, k, requests_log, last>>
    /\ UNCHANGED filterVars
    /\ UNCHANGED appVars

download_wait_time == 60
StableMinSize == 1000
MinDownloadSize == 10000

\* a file the site sent after the click is in the directory
NewFileAppeared(fs) == \E n \in DOMAIN fs : fs[n].src = "browser"

\* shutil.copy2 raised: the destination was not created, or only started
CopyFailed(fs, f) == {fs, WithFile(fs, CACHE, FileRec(0, FALSE, fs[f].src))}

\* lines 469-499: the loop over actual_csv_files (in directory order) when
\* the expected file does not exist.  Yields every [ret, fs] the loop can
\* end with: ret "True" when it returned, "next" when it ran out of files.
RECURSIVE ScanCsvFiles(_, _)
ScanCsvFiles(fs, todo) ==
    IF todo = {}
    THEN {[ret |-> "next", fs |-> fs]}
    ELSE UNION {
        LET size == fs[csv_file].size
            rest == todo \ {csv_file}
        IN  IF size > MinDownloadSize
            THEN UNION {
                    IF fs2[csv_file].size = size
                    THEN {[ret |-> "True", fs |-> Rename(fs2, csv_file, CACHE)],
                          [ret |-> "True", fs |-> Copy2(fs2, csv_file, CACHE)]}
                         \cup UNION {ScanCsvFiles(fs3, rest) :
                                        fs3 \in CopyFailed(fs2, csv_file)}
                    ELSE ScanCsvFiles(fs2, rest)
                 : fs2 \in EnvStep(fs)}
            ELSE ScanCsvFiles(fs, rest)
        : csv_file \in todo}

\* lines 432-499: one iteration of the polling loop after time.sleep(1),
\* on the directory fs1 it then lists
PollIteration(fs1) ==
    LET actual_csv_files == {f \in DOMAIN fs1 : IsCsvName(f)} IN
    IF Exists(fs1, CACHE)
    THEN LET size == fs1[CACHE].size IN
         IF size > StableMinSize
         THEN {IF fs2[CACHE].size = size /\ size > MinDownloadSize
               THEN [ret |-> "True", fs |-> fs2]
               ELSE [ret |-> "next", fs |-> fs2]
               : fs2 \in EnvStep(fs1)}
         ELSE {[ret |-> "next", fs |-> fs1]}
    ELSE IF actual_csv_files # {}
         THEN ScanCsvFiles(fs1, actual_csv_files)
         ELSE {[ret |-> "next", fs |-> fs1]}

\* a loop that does not advance
range_stays(j) == j

\* line 428: "for i in range(download_wait_time)"; continue and the end of
\* the body both go on to the next value
range_next(j) == j + 1

\* lines 428-512
SeleniumPoll ==
    /\ pc = "poll"
    /\ i < download_wait_time
    /\ \E fs1 \in EnvStep(files) :
        /\ download_detected' =
              (download_detected \/ (DOMAIN fs1) \ initial_files # {})
        /\ \E o \in PollIteration(fs1), q \in {"ok", "raises"} :
              /\ grew' = (grew /\ o.fs # files)
              /\ IF o.ret = "True"
                 THEN /\ SeleniumReturns("True", o.fs, Quit(q), trace)
                      /\ i' = i
                 ELSE /\ q = "ok"
                      /\ files' = o.fs
                      /\ i' = range_next(i)
                      /\ UNCHANGED <<pc, session, trace, result>>
    /\ UNCHANGED <<files0, force_update, nav, initial_files, k, requests_log, last>>
    /\ UNCHANGED filterVars
    /\ UNCHANGED appVars

FinalCheckAnySize(fs) ==
    IF Exists(fs, CACHE)
    THEN {[ret |-> "True", fs |-> fs]}
    ELSE {[ret |-> "False", fs |-> fs]}

\* lines 514-571: the final check after the loop; yields every [ret, fs]
FinalCheck(fs) ==
    IF Exists(fs, CACHE)
    THEN {[ret |-> IF fs[CACHE].size > MinDownloadSize THEN "True" ELSE "False",
           fs |-> fs]}
    ELSE LET csv_files == {f \in DOMAIN fs : IsCsvName(f)}
             \* the first file of the largest size above the minimum
             largest == {f \in csv_files :
                            /\ fs[f].size > MinDownloadSize
                            /\ \A g \in csv_files : fs[g].size <= fs[f].size}
         IN  IF largest = {}
             THEN {[ret |-> "False", fs |-> fs]}
             ELSE UNION {
                    {[ret |-> "True", fs |-> Rename(fs, largest_csv, CACHE)],
                     [ret |-> "True", fs |-> Copy2(fs, largest_csv, CACHE)]}
                    \cup {[ret |-> "False", fs |-> fs3] :
                              fs3 \in CopyFailed(fs, largest_csv)}
                  : largest_csv \in largest}

SeleniumFinal ==
    /\ pc = "poll"
    /\ i = download_wait_time
    /\ \E o \in FinalCheck(files), q \in {"ok", "raises"} :
          SeleniumReturns(o.ret, o.fs, Quit(q), trace)
    /\ UNCHANGED <<files0, force_update, nav, initial_files, i, download_detected, grew,
                   k, requests_log, last>>
    /\ UNCHANGED filterVars
    /\ UNCHANGED appVars

(***************************************************************************)
(* Text: a text is a tuple of characters; an accented letter is written    *)
(* as the letter followed by an apostrophe ("o'" is o with acute accent).  *)
(***************************************************************************)
UpperCase ==
    <<"A", "B", "C", "D", "E", "F", "G", "H", "I", "J", "K", "L", "M", "N", "O",
      "P", "Q", "R", "S", "T", "U", "V", "W", "X", "Y", "Z",
      "A'", "E'", "I'", "O'", "U'">>
LowerCase ==
    <<"a", "b", "c", "d", "e", "f", "g", "h", "i", "j", "k", "l", "m", "n", "o",
      "p", "q", "r", "s", "t", "u", "v", "w", "x", "y", "z",
      "a'", "e'", "i'", "o'", "u'">>

\* one character of str.lower()
LowerChar(c) ==
    IF \E j \in 1..Len(UpperCase) : UpperCase[j] = c
    THEN LowerCase[CHOOSE j \in 1..Len(UpperCase) : UpperCase[j] = c]
    ELSE c

\* str.lower()
Lower(t) == [j \in 1..Len(t) |-> LowerChar(t[j])]

\* pat in t
Contains(t, pat) ==
    \E start \in 1..(Len(t) - Len(pat) + 1) :
        \A j \in 1..Len(pat) : t[start + j - 1] = pat[j]

(***************************************************************************)
(* download_csv_direct: the responses the site can give                    *)
(***************************************************************************)
ContentTypes ==
    [csv   |-> <<"t", "e", "x", "t", "/", "c", "s", "v">>,
     html  |-> <<"t", "e", "x", "t", "/", "h", "t", "m", "l", ";", " ", "c", "h", "a", "r", "s", "e", "t", "=", "u", "t", "f", "-", "8">>,
     json  |-> <<"a", "p", "p", "l", "i", "c", "a", "t", "i", "o", "n", "/", "j", "s", "o", "n">>,
     octet |-> <<"a", "p", "p", "l", "i", "c", "a", "t", "i", "o", "n", "/", "o", "c", "t", "e", "t", "-", "s", "t", "r", "e", "a", "m">>,
     upper |-> <<"A", "p", "p", "l", "i", "c", "a", "t", "i", "o", "n", "/", "C", "S", "V">>]

\* A response body by what the code looks at: its length in characters, the
\* position of its first comma and first line break (0: none), the white
\* space that strip() removes from its first 1000 characters, its length in
\* bytes once written as UTF-8, and whether pd.read_csv can read it.
Bodies ==
    [csv_big  |-> [len |-> 20000, comma |-> 4,   nl |-> 30, pad |-> 0, bytes |-> 20150, ok |-> TRUE],
     csv_late |-> [len |-> 20000, comma |-> 700, nl |-> 30, pad |-> 0, bytes |-> 20000, ok |-> TRUE],
     csv_60   |-> [len |-> 60,    comma |-> 4,   nl |-> 30, pad |-> 1, bytes |-> 63,    ok |-> TRUE],
     csv_51   |-> [len |-> 51,    comma |-> 4,   nl |-> 30, pad |-> 1, bytes |-> 51,    ok |-> TRUE],
     csv_tiny |-> [len |-> 4,     comma |-> 2,   nl |-> 4,  pad |-> 1, bytes |-> 4,     ok |-> TRUE],
     html     |-> [len |-> 5000,  comma |-> 120, nl |-> 16, pad |-> 2, bytes |-> 5100,  ok |-> FALSE],
     oneline  |-> [len |-> 200,   comma |-> 5,   nl |-> 0,  pad |-> 0, bytes |-> 200,   ok |-> TRUE],
     nocomma  |-> [len |-> 300,   comma |-> 0,   nl |-> 10, pad |-> 1, bytes |-> 300,   ok |-> TRUE]]

Response(status, ctype, body, exc) ==
    [status |-> status, ctype |-> ctype, body |-> body, exc |-> exc]

\* what session.get / session.post can return or raise: every content type
\* with a body that reads as CSV, every body as text/csv, two more pairs that
\* fail the checks in more than one way, error statuses, and exceptions
Responses ==
    {Response(200, c, "csv_big", "none") : c \in DOMAIN ContentTypes}
    \cup {Response(200, "csv", b, "none") : b \in DOMAIN Bodies}
    \cup {Response(200, "html", "html", "none"), Response(200, "octet", "csv_tiny", "none")}
    \cup {Response(st, "csv", "csv_big", "none") : st \in {403, 404, 500}}
    \cup {Response(0, "json", "nocomma", e) : e \in {"Timeout", "ConnectionError", "Exception"}}

NoLast == [method |-> "none", resp |-> Response(0, "json", "nocomma", "none"),
           accepted |-> FALSE, write |-> "none"]

GetPreviewLen == 1000
PostPreviewLen == 500
MinContentLen == 50

Min(a, b) == IF a < b THEN a ELSE b

\* lines 129-138: the test a GET response must pass to be written
GetAccepts(r) ==
    LET content_type == Lower(ContentTypes[r.ctype])
        body == Bodies[r.body]
    IN  /\ r.status = 200
        /\ \/ Contains(content_type, <<"c", "s", "v">>)
           \/ Contains(content_type, <<"t", "e", "x", "t">>)
           \/ Contains(content_type, <<"a", "p", "p", "l", "i", "c", "a", "t", "i", "o", "n", "/", "o", "c", "t", "e", "t", "-", "s", "t", "r", "e", "a", "m">>)
        /\ body.comma # 0 /\ body.comma <= GetPreviewLen
        /\ body.nl # 0 /\ body.nl <= GetPreviewLen
        /\ Min(body.len, GetPreviewLen) - body.pad > MinContentLen

\* lines 188-194: the test a POST response must pass to be written
PostAccepts(r) ==
    LET content_type == Lower(ContentTypes[r.ctype])
        body == Bodies[r.body]
    IN  /\ r.status = 200
        /\ \/ Contains(content_type, <<"c", "s", "v">>)
           \/ Contains(content_type, <<"a", "p", "p", "l", "i", "c", "a", "t", "i", "o", "n", "/", "o", "c", "t", "e", "t", "-", "s", "t", "r", "e", "a", "m">>)
        /\ body.comma # 0 /\ body.comma <= PostPreviewLen
        /\ body.nl # 0 /\ body.nl <= PostPreviewLen

\* open("data/boletin_concursal.csv", 'w') and f.write(text): "ok", or
\* "open_raises" (nothing touched), or "write_raises" (the file was
\* truncated by open and the write did not complete)
WriteOutcomes == {"ok", "open_raises", "write_raises"}

WriteCache(fs, r, w) ==
    CASE w = "ok" -> WithFile(fs, CACHE, FileRec(Bodies[r.body].bytes, Bodies[r.body].ok, "http"))
      [] w = "write_raises" -> WithFile(fs, CACHE, FileRec(0, FALSE, "http"))
      [] OTHER -> fs

\* the responses each test lets through
GetAccepted == {r \in Responses : r.exc = "none" /\ GetAccepts(r)}
PostAccepted == {r \in Responses : r.exc = "none" /\ PostAccepts(r)}

NumEndpoints == 6
NumPostVariants == 5

(***************************************************************************)
(* update_data, lines 244-279, and download_csv_direct                     *)
(***************************************************************************)
\* lines 255-262, 266-271: no tier delivered; fall back to the cache
\* a fallback that ends with synthetic sample records
CacheFallbackWithSample(fs) ==
    IF has_existing_data(fs)
    THEN get_csv_data(fs)
    ELSE Dataset(FileRec(10001, TRUE, "sample"))

\* a fallback that parses whatever is at the cache path
CacheFallbackUnchecked(fs) == get_csv_data(fs)

CacheFallback(fs) == IF has_existing_data(fs) THEN get_csv_data(fs) ELSE Absent

\* lines 249-262: download_csv_direct returned ret, leaving the directory fs
DirectReturns(ret, fs, tr) ==
    /\ files' = fs
    /\ trace' = Append(tr, "direct:" \o ret)
    /\ pc' = "done"
    /\ result' = IF ret = "True" THEN get_csv_data(fs) ELSE CacheFallback(fs)

\* lines 244-248 and fallback.py lines 11-65: the import, the directory
\* test and the GET of the source page
\* a request: the method, the URL (0 is the source page, 1..6 the entries
\* of potential_csv_urls) and the form data (0 for none, 1..5 the entries of
\* post_data_variants)
Request(method, url, data) == <<method, url, data>>

\* a loop that tries the same item again
same_item(j) == j

\* "for i, x in enumerate(xs)": the loops go on to the next item, whatever
\* the outcome of the request
next_item(j) == j + 1

\* what the GET of the source page can return or raise; raise_for_status
\* turns an error status into HTTPError
PageResponses ==
    {Response(200, "html", "html", "none"), Response(404, "html", "html", "HTTPError")}
    \cup {Response(0, "json", "nocomma", e) : e \in {"Timeout", "ConnectionError", "Exception"}}

\* a warm-up whose failure is only logged
warm_up_ignored(exc) == "get"

\* lines 51-65 and 210-213: Timeout, ConnectionError and HTTPError return
\* False in their own handlers, any other exception in the outer handler;
\* otherwise on to the endpoint probes
warm_up(exc) == IF exc = "none" THEN "get" ELSE "False"

DirectStart ==
    /\ pc = "fallback"
    /\ TierLocalsReset
    /\ \E o \in {"import_error", "not_writable", "page"} :
        CASE o = "import_error" ->
                /\ trace' = Append(trace, "import_error")
                /\ pc' = "done"
                /\ result' = CacheFallback(files)
                /\ UNCHANGED <<files, k, requests_log, last>>
          [] o = "not_writable" ->
                /\ DirectReturns("False", files, Append(trace, "direct"))
                /\ UNCHANGED <<k, requests_log, last>>
          [] o = "page" ->
                \E r \in PageResponses :
                    /\ requests_log' = Append(requests_log, Request("GET", 0, 0))
                    /\ last' = [method |-> "GET", resp |-> r, accepted |-> FALSE,
                                write |-> "none"]
                    /\ IF warm_up(r.exc) = "False"
                       THEN /\ DirectReturns("False", files, Append(trace, "direct"))
                            /\ UNCHANGED k
                       ELSE /\ trace' = Append(trace, "direct")
                            /\ pc' = "get"
                            /\ k' = 1
                            /\ UNCHANGED <<files, result>>
    /\ UNCHANGED <<files0, force_update, session>>
    /\ UNCHANGED filterVars
    /\ UNCHANGED appVars

\* lines 121-170: one probe of potential_csv_urls[k]
DirectGet ==
    /\ pc = "get"
    /\ \E r \in Responses :
       \E w \in IF r \in GetAccepted THEN WriteOutcomes ELSE {"ok"} :
        LET accepted == r \in GetAccepted IN
        /\ requests_log' = Append(requests_log, Request("GET", k, 0))
        /\ last' = [method |-> "GET", resp |-> r, accepted |-> accepted,
                    write |-> IF accepted THEN w ELSE "none"]
        /\ IF accepted /\ w = "ok"
           THEN /\ DirectReturns("True", WriteCache(files, r, w), trace)
                /\ UNCHANGED k
           ELSE /\ files' = IF accepted THEN WriteCache(files, r, w) ELSE files
                /\ IF k < NumEndpoints
                   THEN k' = next_item(k) /\ pc' = "get"
                   ELSE k' = 1 /\ pc' = "post"
                /\ UNCHANGED <<trace, result>>
    /\ UNCHANGED <<files0, force_update, session, nav, initial_files, i,
                   download_detected, grew>>
    /\ UNCHANGED filterVars
    /\ UNCHANGED appVars

\* lines 172-208: one POST of post_data_variants[k] to the source page
DirectPost ==
    /\ pc = "post"
    /\ \E r \in Responses :
       \E w \in IF r \in PostAccepted THEN WriteOutcomes ELSE {"ok"} :
        LET accepted == r \in PostAccepted IN
        /\ requests_log' = Append(requests_log, Request("POST", 0, k))
        /\ last' = [method |-> "POST", resp |-> r, accepted |-> accepted,
                    write |-> IF accepted THEN w ELSE "none"]
        /\ IF accepted
           THEN /\ DirectReturns(IF w = "ok" THEN "True" ELSE "False",
                                 WriteCache(files, r, w), trace)
                /\ UNCHANGED k
           ELSE IF r.exc # "none" \/ k = NumPostVariants
                THEN /\ DirectReturns("False", files, trace)
                     /\ UNCHANGED k
                ELSE /\ k' = next_item(k)
                     /\ UNCHANGED <<files, pc, trace, result>>
    /\ UNCHANGED <<files0, force_update, session, nav, initial_files, i,
                   download_detected, grew>>
    /\ UNCHANGED filterVars
    /\ UNCHANGED appVars

(***************************************************************************)
(* Specification of the acquisition pipeline                               *)
(***************************************************************************)
\* the cache a previous run may have left, and another CSV file
InitialCaches ==
    {FileRec(100, TRUE, "pre"), FileRec(101, TRUE, "pre"), FileRec(101, FALSE, "pre"),
     FileRec(10001, TRUE, "pre"), FileRec(10001, FALSE, "pre")}
InitialAlts == {FileRec(20000, TRUE, "pre")}

InitialFiles ==
    {[n \in {} |-> FileRec(0, FALSE, "pre")]}
    \cup {[n \in {CACHE} |-> c] : c \in InitialCaches}
    \cup {[n \in {ALT} |-> a] : a \in InitialAlts}
    \cup {[n \in {CACHE, ALT} |-> IF n = CACHE THEN c ELSE a] :
            c \in InitialCaches, a \in InitialAlts}

NoDf == [cols |-> <<>>, rows |-> <<>>]
NoCall == [fn |-> "none"]
NoMemo == [call |-> NoCall]

\* st.session_state of a new browser session: no force_update entry
NoSessionState == [force_update |-> "absent"]

FilterIdle ==
    /\ df = NoDf
    /\ call = NoCall
    /\ out = <<>>
    /\ memo = NoMemo
    /\ session_state = NoSessionState

Init ==
    /\ files \in InitialFiles
    /\ files0 = files
    /\ pc = "idle"
    /\ force_update = FALSE
    /\ result = NoResult
    /\ trace = <<>>
    /\ session = "none"
    /\ nav = NoNav
    /\ initial_files = {}
    /\ i = 0
    /\ download_detected = FALSE
    /\ grew = TRUE
    /\ k = 0
    /\ requests_log = <<>>
    /\ last = NoLast
    /\ FilterIdle

Next ==
    \/ \E f \in BOOLEAN : update_data(f)
    \/ SeleniumStart
    \/ SeleniumNavigate
    \/ SeleniumPoll
    \/ SeleniumFinal
    \/ DirectStart
    \/ DirectGet
    \/ DirectPost

Spec == Init /\ [][Next]_vars

(***************************************************************************)
(* The polling loop on its own: download_csv_with_selenium right after the *)
(* click went through, with the loop body and the final check as the only  *)
(* steps.  time.sleep returns and nothing in the body blocks, so a step    *)
(* that can be taken is taken.                                             *)
(***************************************************************************)
PollInit ==
    /\ files \in InitialFiles
    /\ files0 = files
    /\ pc = "poll"
    /\ force_update \in BOOLEAN
    /\ force_update \/ ~has_existing_data(files)
    /\ result = NoResult
    /\ trace = <<"selenium">>
    /\ session = "live"
    /\ \E clickable \in BOOLEAN, direct \in {"ok", "raised"} :
            nav = [clickable |-> clickable,
                   click |-> click_result(direct, js_click(direct, "ok")),
                   direct |-> direct, js |-> js_click(direct, "ok")]
    /\ initial_files = DOMAIN files
    /\ i = 0
    /\ download_detected = FALSE
    /\ grew = TRUE
    /\ k = 0
    /\ requests_log = <<>>
    /\ last = NoLast
    /\ FilterIdle

PollNext ==
    \/ SeleniumPoll
    \/ SeleniumFinal

PollSpec == PollInit /\ [][PollNext]_vars /\ WF_vars(PollNext)

(***************************************************************************)
(* download_boletin_csv, main.py lines 77-135                              *)
(***************************************************************************)
\* the call or return e was made so far
InTrace(e) == \E j \in 1..Len(trace) : trace[j] = e

\* what a call of the function ends with: a returned bool or an exception
\* that leaves the function
Bool(b) == [kind |-> "bool", value |-> b]
Propagates(e) == [kind |-> "raised", exception |-> e]

\* 'driver' in locals(): the assignment of line 89 was executed
DriverBound ==
    InTrace("setup_chrome_driver:None") \/ InTrace("setup_chrome_driver:driver")

\* lines 84-89: os.makedirs and setup_chrome_driver, which returns None
\* when webdriver.Chrome or the about:blank test raises
download_boletin_csv ==
    /\ pc = "idle"
    /\ \E o \in {"makedirs_raises", "chrome_fails", "blank_fails", "driver"} :
        LET tr == <<"download_boletin_csv">> IN
        CASE o = "makedirs_raises" ->
                /\ DOMAIN files = {}
                /\ trace' = tr
                /\ result' = Bool(FALSE)
                /\ pc' = "boletin_finally"
                /\ UNCHANGED session
          [] o = "chrome_fails" ->
                /\ trace' = Append(tr, "setup_chrome_driver:None")
                /\ pc' = "boletin_get"
                /\ UNCHANGED <<session, result>>
          [] o = "blank_fails" ->
                /\ trace' = Append(tr, "setup_chrome_driver:None")
                /\ session' = "live"
                /\ pc' = "boletin_get"
                /\ UNCHANGED result
          [] o = "driver" ->
                /\ trace' = Append(tr, "setup_chrome_driver:driver")
                /\ session' = "live"
                /\ pc' = "boletin_get"
                /\ UNCHANGED result
    /\ UNCHANGED <<files, files0, force_update, nav, initial_files, i,
                   download_detected, grew, k, requests_log, last>>
    /\ UNCHANGED filterVars
    /\ UNCHANGED appVars

\* lines 91-105 and 129-131: driver.get, the wait for the button, the click;
\* with driver = None, driver.get raises AttributeError, which is caught
BoletinClick ==
    /\ pc = "boletin_get"
    /\ IF InTrace("setup_chrome_driver:None")
       THEN /\ result' = Bool(FALSE)
            /\ pc' = "boletin_finally"
       ELSE \E o \in {"get_raises", "wait_raises", "click_raises", "clicked"} :
                IF o = "clicked"
                THEN /\ pc' = "boletin_wait"
                     /\ UNCHANGED result
                ELSE /\ result' = Bool(FALSE)
                     /\ pc' = "boletin_finally"
    /\ UNCHANGED <<files, files0, force_update, trace, session, nav, initial_files,
                   i, download_detected, grew, k, requests_log, last>>
    /\ UNCHANGED filterVars
    /\ UNCHANGED appVars

\* line 116: the file of the latest ctime; a file the browser wrote is
\* newer than the files that were there before
Latest(fs, expected_files) ==
    IF \E f \in expected_files : fs[f].src = "browser"
    THEN {f \in expected_files : fs[f].src = "browser"}
    ELSE expected_files

\* lines 107-131: time.sleep(10), the directory listing, the rename
BoletinCollect ==
    /\ pc = "boletin_wait"
    /\ \E fs1 \in EnvStep(files) :
        LET expected_files == {f \in DOMAIN fs1 : IsCsvName(f)} IN
        IF expected_files = {}
        THEN /\ files' = fs1
             /\ result' = Bool(FALSE)
        ELSE \E latest_file \in Latest(fs1, expected_files), rn \in {"ok", "raises"} :
                IF latest_file = CACHE
                THEN /\ rn = "ok"
                     /\ files' = fs1
                     /\ result' = Bool(TRUE)
                ELSE IF rn = "ok"
                THEN /\ files' = Rename(fs1, latest_file, CACHE)
                     /\ result' = Bool(TRUE)
                ELSE /\ files' = fs1
                     /\ result' = Bool(FALSE)
    /\ pc' = "boletin_finally"
    /\ UNCHANGED <<files0, force_update, trace, session, nav, initial_files, i,
                   download_detected, grew, k, requests_log, last>>
    /\ UNCHANGED filterVars
    /\ UNCHANGED appVars

\* lines 133-135: "if 'driver' in locals(): driver.quit()"; an exception
\* raised in the finally clause replaces the pending return value
BoletinFinally ==
    /\ pc = "boletin_finally"
    /\ pc' = "boletin_done"
    /\ IF ~DriverBound
       THEN UNCHANGED <<result, session>>
       ELSE IF InTrace("setup_chrome_driver:None")
       THEN /\ result' = Propagates("AttributeError")
            /\ UNCHANGED session
       ELSE \E q \in {"ok", "raises"} :
                /\ session' = Quit(q)
                /\ result' = IF q = "ok" THEN result
                                         ELSE Propagates("WebDriverException")
    /\ UNCHANGED <<files, files0, force_update, trace, nav, initial_files, i,
                   download_detected, grew, k, requests_log, last>>
    /\ UNCHANGED filterVars
    /\ UNCHANGED appVars

BoletinNext ==
    \/ download_boletin_csv
    \/ BoletinClick
    \/ BoletinCollect
    \/ BoletinFinally

BoletinSpec == Init /\ [][BoletinNext]_vars

(***************************************************************************)
(* The dashboard: update_data_section and load_data, streamlit_app.py      *)
(* lines 79-140 and 816-852                                                *)
(***************************************************************************)
\* update_data as load_data sees it: for the argument force and the
\* directory fs, every [df, fs] it can return and leave behind.  A tier that
\* succeeds leaves a new cache file; when both fail the cache is the
\* fallback.
UpdateOutcomes(fs, force) ==
    IF ~force /\ has_existing_data(fs)
    THEN {[df |-> get_csv_data(fs), fs |-> fs]}
    ELSE {[df |-> get_csv_data(fs2), fs |-> fs2] :
            fs2 \in {WithFile(fs, CACHE, FileRec(size, ok, src)) :
                        size \in {10001, 20000}, ok \in BOOLEAN,
                        src \in {"browser", "http"}}}
         \cup {[df |-> CacheFallback(fs), fs |-> fs]}

\* line 825: st.session_state.get('force_update', False)
FlagValue(flag) == flag = "True"

\* lines 832-844: the flag is reset where load_data returns the dataset
FlagAfterLoad(flag, loaded_df) ==
    IF loaded_df # Absent /\ flag # "absent" THEN "False" ELSE flag

\* lines 89-112 and 816-852: update_data_section(force_update=f), which sets
\* the flag when f is true and calls load_data
update_data_section(f) ==
    /\ pc = "idle"
    /\ LET flag == IF f THEN "True" ELSE session_state.force_update
           force == FlagValue(flag)
       IN  \E o \in UpdateOutcomes(files, force) :
            /\ force_update' = force
            /\ files0' = files
            /\ files' = o.fs
            /\ result' = o.df
            /\ session_state' = [force_update |-> FlagAfterLoad(flag, o.df)]
            /\ trace' = <<IF f THEN "update_data_section:True"
                               ELSE "update_data_section:False">>
    /\ UNCHANGED <<pc, session, nav, initial_files, i, download_detected, grew,
                   k, requests_log, last>>
    /\ UNCHANGED filterVars

SessionNext == \E f \in BOOLEAN : update_data_section(f)

SessionSpec == Init /\ [][SessionNext]_vars

(***************************************************************************)
(* The record filters of streamlit_app.py                                  *)
(*                                                                         *)
(* A dataset is [cols, rows]: cols the header (column names), rows a       *)
(* sequence of rows, each one cell per column.  Names and text cells are   *)
(* keys into the tables below, which give their characters.  A cell of the *)
(* publication-date column is a day number, or NaT for a date that         *)
(* get_csv_data could not parse.                                           *)
(***************************************************************************)
CellText ==
    [reneg_acc |-> <<"R", "e", "n", "e", "g", "o", "c", "i", "a", "c", "i", "o'", "n", " ", "-", " ", "P", "e", "r", "s", "o", "n", "a", " ", "D", "e", "u", "d", "o", "r", "a">>,
     reneg_upper |-> <<"R", "E", "N", "E", "G", "O", "C", "I", "A", "C", "I", "O", "N">>,
     liq_vol |-> <<"L", "i", "q", "u", "i", "d", "a", "c", "i", "o'", "n", " ", "v", "o", "l", "u", "n", "t", "a", "r", "i", "a", " ", "s", "i", "m", "p", "l", "i", "f", "i", "c", "a", "d", "a", " ", "-", " ", "P", "e", "r", "s", "o", "n", "a", " ", "D", "e", "u", "d", "o", "r", "a">>,
     liq_forz |-> <<"L", "i", "q", "u", "i", "d", "a", "c", "i", "o'", "n", " ", "f", "o", "r", "z", "o", "s", "a">>,
     res_adm_acc |-> <<"R", "e", "s", "o", "l", "u", "c", "i", "o'", "n", " ", "d", "e", " ", "a", "d", "m", "i", "s", "i", "b", "i", "l", "i", "d", "a", "d">>,
     res_adm_plain |-> <<"R", "E", "S", "O", "L", "U", "C", "I", "O", "N", " ", "D", "E", " ", "A", "D", "M", "I", "S", "I", "B", "I", "L", "I", "D", "A", "D">>,
     ant_res_adm_plain |-> <<"A", "N", "T", "E", "C", "E", "D", "E", "N", "T", "E", "S", " ", "R", "E", "S", "O", "L", "U", "C", "I", "O", "N", " ", "D", "E", " ", "A", "D", "M", "I", "S", "I", "B", "I", "L", "I", "D", "A", "D">>,
     ant_res_adm |-> <<"A", "n", "t", "e", "c", "e", "d", "e", "n", "t", "e", "s", " ", "R", "e", "s", "o", "l", "u", "c", "i", "o'", "n", " ", "d", "e", " ", "A", "d", "m", "i", "s", "i", "b", "i", "l", "i", "d", "a", "d">>,
     res_liq |-> <<"R", "e", "s", "o", "l", "u", "c", "i", "o'", "n", " ", "d", "e", " ", "L", "i", "q", "u", "i", "d", "a", "c", "i", "o'", "n">>,
     ant_res_liq_acc |-> <<"A", "n", "t", "e", "c", "e", "d", "e", "n", "t", "e", "s", " ", "d", "e", " ", "l", "a", " ", "R", "e", "s", "o", "l", "u", "c", "i", "o'", "n", " ", "d", "e", " ", "L", "i", "q", "u", "i", "d", "a", "c", "i", "o'", "n">>,
     ant_res_liq_plain |-> <<"A", "n", "t", "e", "c", "e", "d", "e", "n", "t", "e", "s", " ", "d", "e", " ", "l", "a", " ", "r", "e", "s", "o", "l", "u", "c", "i", "o", "n", " ", "d", "e", " ", "l", "i", "q", "u", "i", "d", "a", "c", "i", "o", "n">>,
     res_reap |-> <<"R", "e", "s", "o", "l", "u", "c", "i", "o'", "n", " ", "d", "e", " ", "r", "e", "a", "p", "e", "r", "t", "u", "r", "a">>,
     rol |-> <<"C", "-", "1", "2", "3", "-", "2", "0", "2", "5">>,
     deudor |-> <<"J", "U", "A", "N", " ", "P", "E", "R", "E", "Z", " ", "G", "O", "N", "Z", "A", "L", "E", "Z">>,
     rut |-> <<"1", "2", "3", "4", "5", "6", "7", "8", "-", "9">>,
     veedor |-> <<"P", "E", "D", "R", "O", " ", "G", "O", "N", "Z", "A", "L", "E", "Z", " ", "R", "U", "I", "Z">>,
     tribunal |-> <<"1", "o_", " ", "J", "u", "z", "g", "a", "d", "o", " ", "d", "e", " ", "L", "e", "t", "r", "a", "s", " ", "d", "e", " ", "S", "a", "n", "t", "i", "a", "g", "o">>,
     acta |-> <<"A", "c", "t", "a", " ", "d", "e", " ", "a", "u", "d", "i", "e", "n", "c", "i", "a">>]

HeaderText ==
    [proc |-> <<"P", "r", "o", "c", "e", "d", "i", "m", "i", "e", "n", "t", "o", " ", "C", "o", "n", "c", "u", "r", "s", "a", "l">>,
     proc_upper |-> <<"P", "R", "O", "C", "E", "D", "I", "M", "I", "E", "N", "T", "O", " ", "C", "O", "N", "C", "U", "R", "S", "A", "L">>,
     proc_short |-> <<"P", "r", "o", "c", "e", "d", "i", "m", "i", "e", "n", "t", "o">>,
     pub |-> <<"N", "o", "m", "b", "r", "e", " ", "P", "u", "b", "l", "i", "c", "a", "c", "i", "o'", "n">>,
     pub_upper |-> <<"N", "O", "M", "B", "R", "E", " ", "P", "U", "B", "L", "I", "C", "A", "C", "I", "O", "N">>,
     pub_short |-> <<"P", "u", "b", "l", "i", "c", "a", "c", "i", "o'", "n">>,
     fecha |-> <<"F", "e", "c", "h", "a", " ", "P", "u", "b", "l", "i", "c", "a", "c", "i", "o'", "n">>,
     fecha_upper |-> <<"F", "E", "C", "H", "A", " ", "P", "U", "B", "L", "I", "C", "A", "C", "I", "O", "N">>,
     fecha_short |-> <<"F", "e", "c", "h", "a">>,
     rol |-> <<"R", "o", "l">>,
     deudor |-> <<"D", "e", "u", "d", "o", "r">>,
     rut |-> <<"R", "U", "T">>,
     veedor |-> <<"V", "e", "e", "d", "o", "r", " ", "L", "i", "q", "u", "i", "d", "a", "d", "o", "r", " ", "T", "i", "t", "u", "l", "a", "r">>,
     tribunal |-> <<"T", "r", "i", "b", "u", "n", "a", "l">>]

\* the patterns the code searches for
Pattern ==
    [renegociacion_acc |-> <<"r", "e", "n", "e", "g", "o", "c", "i", "a", "c", "i", "o'", "n">>,
     renegociacion |-> <<"r", "e", "n", "e", "g", "o", "c", "i", "a", "c", "i", "o", "n">>,
     res_adm_acc |-> <<"r", "e", "s", "o", "l", "u", "c", "i", "o'", "n", " ", "d", "e", " ", "a", "d", "m", "i", "s", "i", "b", "i", "l", "i", "d", "a", "d">>,
     res_adm |-> <<"r", "e", "s", "o", "l", "u", "c", "i", "o", "n", " ", "d", "e", " ", "a", "d", "m", "i", "s", "i", "b", "i", "l", "i", "d", "a", "d">>,
     ant_res_adm_acc |-> <<"a", "n", "t", "e", "c", "e", "d", "e", "n", "t", "e", "s", " ", "r", "e", "s", "o", "l", "u", "c", "i", "o'", "n", " ", "d", "e", " ", "a", "d", "m", "i", "s", "i", "b", "i", "l", "i", "d", "a", "d">>,
     ant_res_adm |-> <<"a", "n", "t", "e", "c", "e", "d", "e", "n", "t", "e", "s", " ", "r", "e", "s", "o", "l", "u", "c", "i", "o", "n", " ", "d", "e", " ", "a", "d", "m", "i", "s", "i", "b", "i", "l", "i", "d", "a", "d">>,
     liquid |-> <<"l", "i", "q", "u", "i", "d">>,
     volunt |-> <<"v", "o", "l", "u", "n", "t">>,
     reso |-> <<"r", "e", "s", "o">>,
     liquida |-> <<"l", "i", "q", "u", "i", "d", "a">>,
     ant_res_liq_acc |-> <<"a", "n", "t", "e", "c", "e", "d", "e", "n", "t", "e", "s", " ", "d", "e", " ", "l", "a", " ", "r", "e", "s", "o", "l", "u", "c", "i", "o'", "n", " ", "d", "e", " ", "l", "i", "q", "u", "i", "d", "a", "c", "i", "o'", "n">>,
     ant_res_liq |-> <<"a", "n", "t", "e", "c", "e", "d", "e", "n", "t", "e", "s", " ", "d", "e", " ", "l", "a", " ", "r", "e", "s", "o", "l", "u", "c", "i", "o", "n", " ", "d", "e", " ", "l", "i", "q", "u", "i", "d", "a", "c", "i", "o", "n">>,
     procedimiento |-> <<"p", "r", "o", "c", "e", "d", "i", "m", "i", "e", "n", "t", "o">>,
     concursal |-> <<"c", "o", "n", "c", "u", "r", "s", "a", "l">>,
     nombre |-> <<"n", "o", "m", "b", "r", "e">>,
     publicacion |-> <<"p", "u", "b", "l", "i", "c", "a", "c", "i", "o", "n">>,
     publicacion_acc |-> <<"p", "u", "b", "l", "i", "c", "a", "c", "i", "o'", "n">>,
     fecha |-> <<"f", "e", "c", "h", "a">>]

NaT == 0

\* Series.astype(str).str.contains(pat, case=False, na=False) on one cell,
\* pat being the alternation of the patterns named in pats
CellContains(cell, pats) ==
    \E q \in pats : Contains(Lower(CellText[cell]), Lower(Pattern[q]))

\* the cells each pattern occurs in
CellMatches == [q \in DOMAIN Pattern |-> {c \in DOMAIN CellText : CellContains(c, {q})}]

str_contains(cell, pats) == \E q \in pats : cell \in CellMatches[q]

\* 'tok' in col.lower(), for a column name
HeaderMatches ==
    [q \in DOMAIN Pattern |->
        {h \in DOMAIN HeaderText : Contains(Lower(HeaderText[h]), Pattern[q])}]

name_has(col, q) == col \in HeaderMatches[q]

\* the last j with P[j], 0 (None) if there is none: "for col in columns:
\* if test(col): found = col" without break
LastIndex(P) ==
    IF \E j \in DOMAIN P : P[j]
    THEN CHOOSE j \in DOMAIN P : P[j] /\ \A m \in DOMAIN P : P[m] => m <= j
    ELSE 0

\* the first j with P[j], 0 (None) if there is none: the loops with break
FirstIndex(P) ==
    IF \E j \in DOMAIN P : P[j]
    THEN CHOOSE j \in DOMAIN P : P[j] /\ \A m \in DOMAIN P : P[m] => j <= m
    ELSE 0

IsProcedimientoName(col) == name_has(col, "procedimiento") /\ name_has(col, "concursal")
IsPublicacionName(col) ==
    name_has(col, "nombre") /\ (name_has(col, "publicacion") \/ name_has(col, "publicacion_acc"))
IsFechaName(col) ==
    name_has(col, "fecha") /\ (name_has(col, "publicacion") \/ name_has(col, "publicacion_acc"))

\* a column label that is not a str (an integer label, as in a frame built
\* without a header row): col.lower() raises AttributeError on it
IsText(col) == col \in DOMAIN HeaderText

\* lines 322-327: the loop visits every column, so it raises when some
\* label is not a str
ColumnScanRaises(cols) == \E j \in DOMAIN cols : ~IsText(cols[j])

\* lines 435-438: the loop stops at the first date column, so it raises
\* when a label that is not a str comes before it
FechaScanRaises(cols) ==
    \E j \in DOMAIN cols :
        /\ ~IsText(cols[j])
        /\ \A m \in 1..(j - 1) : ~IsFechaName(cols[m])

\* an exception on its way out of a function body
Raised == [exception |-> TRUE]

\* a handler that lets the exception through
except_nothing(v) == v

\* "except Exception: return pd.DataFrame()" around a function body
except_Exception(v) == IF v = Raised THEN [cols |-> <<>>, rows |-> <<>>, index |-> <<>>] ELSE v

\* lines 318-333 (and the copies at 372-387, 535-550, 586-601)
procedimiento_col(cols) == LastIndex([j \in DOMAIN cols |-> IsProcedimientoName(cols[j])])

publicacion_col(cols) ==
    LET found == LastIndex([j \in DOMAIN cols |->
                     ~IsProcedimientoName(cols[j]) /\ IsPublicacionName(cols[j])])
    IN  IF found # 0
        THEN found
        ELSE FirstIndex([j \in DOMAIN cols |-> cols[j] = "pub"])

\* preprocess_dates, lines 433-441: the date column, 0 when the header has
\* none (the fallback name "Fecha Publicación" is then not a column either)
fecha_col(cols) == FirstIndex([j \in DOMAIN cols |-> IsFechaName(cols[j])])

\* preprocess_dates, lines 443-452: a copy of the dataset; the date column
\* is already of datetime type when the dataset comes from get_csv_data
preprocess_dates(d) == d

\* pd.DataFrame()
EmptyFrame == [cols |-> <<>>, rows |-> <<>>, index |-> <<>>]

\* a result that keeps every row of the dataset
columns_not_found_keeps_all(d) ==
    [cols |-> d.cols, rows |-> d.rows, index |-> [j \in DOMAIN d.rows |-> j]]

\* lines 361-362: "else: return pd.DataFrame()" when a column was not found
columns_not_found(d) == EmptyFrame

\* the indices j of 1..n with keep[j], ascending: df[mask] keeps row order
RECURSIVE Selected(_, _)
Selected(keep, n) ==
    IF n = 0
    THEN <<>>
    ELSE IF keep[n] THEN Append(Selected(keep, n - 1), n) ELSE Selected(keep, n - 1)

\* df_processed[final_mask]
Masked(d, keep) ==
    LET idx == Selected(keep, Len(d.rows)) IN
    [cols |-> d.cols, rows |-> [j \in 1..Len(idx) |-> d.rows[idx[j]]], index |-> idx]

\* lines 350-358: the date mask is applied when both bounds are given and
\* the date column exists; a NaT compares False with every date
None == 0 - 1

\* a date filter that is applied as soon as one bound is given
DateFilterActiveOnEitherBound(d, fc, start_date, end_date) ==
    (start_date # None \/ end_date # None) /\ fc \in 1..Len(d.cols)

DateFilterActive(d, fc, start_date, end_date) ==
    start_date # None /\ end_date # None /\ fc \in 1..Len(d.cols)

\* a date mask that lets a NaT through
date_mask_keeps_NaT(row, fc, start_date, end_date) ==
    \/ row[fc] = NaT
    \/ row[fc] >= start_date /\ row[fc] <= end_date

\* a date mask with the end of the range left out
date_mask_end_exclusive(row, fc, start_date, end_date) ==
    /\ row[fc] # NaT
    /\ row[fc] >= start_date
    /\ row[fc] < end_date

date_mask(row, fc, start_date, end_date) ==
    /\ row[fc] # NaT
    /\ row[fc] >= start_date
    /\ row[fc] <= end_date

\* a bound passed as a datetime.datetime instead of a datetime.date
DateTimeArg == 0 - 2

\* lines 352-355: comparing a datetime.date of the column with a
\* datetime.datetime raises TypeError; a NaT is never compared
date_mask_raises(d, fc, start_date, end_date) ==
    /\ start_date = DateTimeArg \/ end_date = DateTimeArg
    /\ \E j \in DOMAIN d.rows : d.rows[j][fc] # NaT

\* lines 350-358: the date test of row j as the final mask sees it; when the
\* date mask raises, "except: pass" leaves the final mask as it was
date_filter(d, j, fc, start_date, end_date) ==
    (DateFilterActive(d, fc, start_date, end_date)
        /\ ~date_mask_raises(d, fc, start_date, end_date))
        => date_mask(d.rows[j], fc, start_date, end_date)

\* the Renegociacion masks without the exclusion of "antecedentes"
renegociaciones_mask_no_exclusion(row, pc_, pb) ==
    /\ str_contains(row[pc_], {"renegociacion_acc", "renegociacion"})
    /\ str_contains(row[pb], {"res_adm_acc", "res_adm"})

\* the Renegociacion masks excluding only the unaccented "antecedentes" label
renegociaciones_mask_plain_exclusion(row, pc_, pb) ==
    /\ str_contains(row[pc_], {"renegociacion_acc", "renegociacion"})
    /\ str_contains(row[pb], {"res_adm_acc", "res_adm"})
    /\ ~str_contains(row[pb], {"ant_res_adm"})

\* lines 337-347: the Renegociacion masks of one row
renegociaciones_mask(row, pc_, pb) ==
    /\ str_contains(row[pc_], {"renegociacion_acc", "renegociacion"})
    /\ str_contains(row[pb], {"res_adm_acc", "res_adm"})
    /\ ~str_contains(row[pb], {"ant_res_adm_acc", "ant_res_adm"})

\* a Liquidacion Voluntaria mask that only looks for "reso" in the label
liquidaciones_mask_reso_only(row, pc_, pb) == str_contains(row[pb], {"reso"})

\* the Liquidacion Voluntaria masks without the exclusion of "antecedentes"
liquidaciones_mask_no_exclusion(row, pc_, pb) ==
    /\ str_contains(row[pc_], {"liquid"}) /\ str_contains(row[pc_], {"volunt"})
    /\ str_contains(row[pb], {"reso"}) /\ str_contains(row[pb], {"liquida"})

\* the Liquidacion Voluntaria masks without the test for "volunt"
liquidaciones_mask_no_volunt(row, pc_, pb) ==
    /\ str_contains(row[pc_], {"liquid"})
    /\ str_contains(row[pb], {"reso"}) /\ str_contains(row[pb], {"liquida"})
    /\ ~str_contains(row[pb], {"ant_res_liq_acc", "ant_res_liq"})

\* lines 391-403: the Liquidacion Voluntaria masks of one row
liquidaciones_mask(row, pc_, pb) ==
    /\ str_contains(row[pc_], {"liquid"}) /\ str_contains(row[pc_], {"volunt"})
    /\ str_contains(row[pb], {"reso"}) /\ str_contains(row[pb], {"liquida"})
    /\ ~str_contains(row[pb], {"ant_res_liq_acc", "ant_res_liq"})

\* lines 312-364
get_renegociaciones_data(d, start_date, end_date) ==
    LET df_processed == preprocess_dates(d)
        fc == fecha_col(d.cols)
        pc_ == procedimiento_col(df_processed.cols)
        pb == publicacion_col(df_processed.cols)
    IN  except_Exception(
            IF FechaScanRaises(d.cols) \/ ColumnScanRaises(df_processed.cols)
            THEN Raised
            ELSE IF pc_ # 0 /\ pb # 0
            THEN Masked(df_processed,
                    [j \in 1..Len(df_processed.rows) |->
                        /\ renegociaciones_mask(df_processed.rows[j], pc_, pb)
                        /\ date_filter(df_processed, j, fc, start_date, end_date)])
            ELSE columns_not_found(df_processed))

\* lines 366-420
get_liquidaciones_data(d, start_date, end_date) ==
    LET df_processed == preprocess_dates(d)
        fc == fecha_col(d.cols)
        pc_ == procedimiento_col(df_processed.cols)
        pb == publicacion_col(df_processed.cols)
    IN  except_Exception(
            IF FechaScanRaises(d.cols) \/ ColumnScanRaises(df_processed.cols)
            THEN Raised
            ELSE IF pc_ # 0 /\ pb # 0
            THEN Masked(df_processed,
                    [j \in 1..Len(df_processed.rows) |->
                        /\ liquidaciones_mask(df_processed.rows[j], pc_, pb)
                        /\ date_filter(df_processed, j, fc, start_date, end_date)])
            ELSE columns_not_found(df_processed))

\* lines 532-581, called as on the Summary page (line 717)
apply_renegociaciones_filters(df_processed, fc, start_date, end_date) ==
    LET pc_ == procedimiento_col(df_processed.cols)
        pb == publicacion_col(df_processed.cols)
    IN  except_Exception(
        IF ColumnScanRaises(df_processed.cols)
        THEN Raised
        ELSE IF pc_ # 0 /\ pb # 0
        THEN Masked(df_processed,
                [j \in 1..Len(df_processed.rows) |->
                    /\ str_contains(df_processed.rows[j][pc_], {"renegociacion_acc", "renegociacion"})
                    /\ str_contains(df_processed.rows[j][pb], {"res_adm_acc", "res_adm"})
                    /\ ~str_contains(df_processed.rows[j][pb], {"ant_res_adm_acc", "ant_res_adm"})
                    /\ date_filter(df_processed, j, fc, start_date, end_date)])
        ELSE columns_not_found(df_processed))

\* lines 583-634, called as on the Summary page (line 718)
apply_liquidaciones_filters(df_processed, fc, start_date, end_date) ==
    LET pc_ == procedimiento_col(df_processed.cols)
        pb == publicacion_col(df_processed.cols)
    IN  except_Exception(
        IF ColumnScanRaises(df_processed.cols)
        THEN Raised
        ELSE IF pc_ # 0 /\ pb # 0
        THEN Masked(df_processed,
                [j \in 1..Len(df_processed.rows) |->
                    /\ str_contains(df_processed.rows[j][pc_], {"liquid"})
                    /\ str_contains(df_processed.rows[j][pc_], {"volunt"})
                    /\ str_contains(df_processed.rows[j][pb], {"reso"})
                    /\ str_contains(df_processed.rows[j][pb], {"liquida"})
                    /\ ~str_contains(df_processed.rows[j][pb], {"ant_res_liq_acc", "ant_res_liq"})
                    /\ date_filter(df_processed, j, fc, start_date, end_date)])
        ELSE columns_not_found(df_processed))

(***************************************************************************)
(* Specification of the record filters                                     *)
(***************************************************************************)
MaxRows == 2

ProcCells == {"reneg_acc", "reneg_upper", "liq_vol", "liq_forz", "acta"}
LabelCells == {"res_adm_acc", "res_adm_plain", "ant_res_adm", "ant_res_adm_plain", "res_liq",
               "ant_res_liq_acc", "ant_res_liq_plain", "res_reap", "acta"}
Days == {1, 2, 3}

\* headers: the usual one, one in capitals without accents, one without a
\* procedure-type column, one without a publication-label or date column
Headers ==
    {<<"proc", "pub", "fecha">>, <<"proc_upper", "pub_upper", "fecha_upper">>,
     <<"proc_short", "pub", "fecha">>, <<"proc", "pub_short", "fecha_short">>,
     <<"proc", "pub", "fecha_short">>}

\* headers with a label that is not a str: in front of the date column, and
\* as a fourth column behind it
NonTextHeaders == {<<"num", "pub", "fecha">>, <<"proc", "pub", "fecha", "num">>}

\* the rows r under the header h: a fourth column holds a filler cell
RowsUnder(h, r) ==
    IF Len(h) = 3 THEN r ELSE [j \in DOMAIN r |-> Append(r[j], "acta")]

\* every pair of procedure type and publication label, and every date
RowPool ==
    {<<p, l, 2>> : p \in ProcCells, l \in LabelCells}
    \cup {<<"reneg_acc", "res_adm_acc", d>> : d \in Days \cup {NaT}}
    \cup {<<"liq_vol", "res_liq", d>> : d \in Days \cup {NaT}}

\* the rows that datasets of more than one row are made of
MixPool ==
    {<<"reneg_acc", "res_adm_acc", 1>>, <<"reneg_upper", "ant_res_adm", 2>>,
     <<"liq_vol", "res_liq", 3>>, <<"liq_vol", "res_adm_plain", NaT>>,
     <<"liq_vol", "res_liq", NaT>>, <<"acta", "acta", 2>>}

SeqsOf(pool, n) == [1..n -> pool]

\* the five records of get_sample_data as get_csv_data reads them back; the
\* dates 15/01, 20/01, 25/01, 30/01 and 05/02/2025 are numbered 1 to 5
SampleRecord(proc, label, date) ==
    <<"rol", proc, "deudor", "rut", "veedor", label, "tribunal", date>>

sample_data ==
    [cols |-> <<"rol", "proc", "deudor", "rut", "veedor", "pub", "tribunal", "fecha">>,
     rows |-> <<SampleRecord("reneg_acc", "res_adm_acc", 1),
                SampleRecord("liq_vol", "res_liq", 2),
                SampleRecord("reneg_acc", "res_adm_acc", 3),
                SampleRecord("liq_vol", "res_liq", 4),
                SampleRecord("reneg_acc", "res_adm_acc", 5)>>]

Datasets ==
    {sample_data} \cup
    {[cols |-> h, rows |-> RowsUnder(h, r)] :
        h \in Headers \cup NonTextHeaders,
        r \in SeqsOf(RowPool, 0) \cup SeqsOf(RowPool, 1)
              \cup UNION {SeqsOf(MixPool, n) : n \in 2..MaxRows}}

\* (start_date, end_date) as passed by the pages: both, one, or neither
DateRanges ==
    {<<None, None>>, <<1, 2>>, <<2, 2>>, <<2, 3>>, <<2, None>>, <<None, 2>>,
     <<DateTimeArg, DateTimeArg>>, <<2, DateTimeArg>>}

PipelineIdle ==
    /\ files = [n \in {} |-> FileRec(0, FALSE, "pre")]
    /\ files0 = files
    /\ pc = "idle"
    /\ force_update = FALSE
    /\ result = NoResult
    /\ trace = <<>>
    /\ session = "none"
    /\ nav = NoNav
    /\ initial_files = {}
    /\ i = 0
    /\ download_detected = FALSE
    /\ grew = TRUE
    /\ k = 0
    /\ requests_log = <<>>
    /\ last = NoLast
    /\ session_state = NoSessionState

FilterInit ==
    /\ PipelineIdle
    /\ df \in Datasets
    /\ call = NoCall
    /\ out = EmptyFrame
    /\ memo = NoMemo

FilterCall(fn, r, res) ==
    /\ call' = [fn |-> fn, start_date |-> r[1], end_date |-> r[2]]
    /\ out' = res
    /\ UNCHANGED df
    /\ UNCHANGED memo
    /\ UNCHANGED pipeVars
    /\ UNCHANGED appVars

ReportRenegociaciones ==
    \E r \in DateRanges :
        FilterCall("get_renegociaciones_data", r, get_renegociaciones_data(df, r[1], r[2]))

ReportLiquidaciones ==
    \E r \in DateRanges :
        FilterCall("get_liquidaciones_data", r, get_liquidaciones_data(df, r[1], r[2]))

SummaryRenegociaciones ==
    \* line 659: when preprocess_dates raises the filters are not called
    /\ ~FechaScanRaises(df.cols)
    /\ \E r \in DateRanges :
        FilterCall("apply_renegociaciones_filters", r,
            apply_renegociaciones_filters(preprocess_dates(df), fecha_col(df.cols), r[1], r[2]))

SummaryLiquidaciones ==
    \* line 659: when preprocess_dates raises the filters are not called
    /\ ~FechaScanRaises(df.cols)
    /\ \E r \in DateRanges :
        FilterCall("apply_liquidaciones_filters", r,
            apply_liquidaciones_filters(preprocess_dates(df), fecha_col(df.cols), r[1], r[2]))

FilterNext ==
    \/ ReportRenegociaciones
    \/ ReportLiquidaciones
    \/ SummaryRenegociaciones
    \/ SummaryLiquidaciones

FilterSpec == FilterInit /\ [][FilterNext]_vars

(***************************************************************************)
(* The same four functions called repeatedly on one dataset object.  One   *)
(* earlier call and its result are remembered, together with whether a     *)
(* different call was made after it.                                       *)
(***************************************************************************)
RepeatDatasets ==
    {sample_data} \cup
    {[cols |-> h, rows |-> RowsUnder(h, r)] :
        h \in {<<"proc", "pub", "fecha">>, <<"proc", "pub", "fecha", "num">>},
        r \in SeqsOf(MixPool, 2)}

RepeatRanges == {<<None, None>>, <<1, 2>>, <<2, 3>>, <<DateTimeArg, DateTimeArg>>}

RepeatInit ==
    /\ PipelineIdle
    /\ df \in RepeatDatasets
    /\ call = NoCall
    /\ out = EmptyFrame
    /\ memo = NoMemo

caller_dataset_filtered_in_place(d, res) == [cols |-> d.cols, rows |-> res.rows]

\* the caller's dataset after a call that returned res: the filters work on
\* df.copy() and boolean indexing builds a new frame
caller_dataset(d, res) == d

RepeatCall(fn, r, res) ==
    /\ call' = [fn |-> fn, start_date |-> r[1], end_date |-> r[2]]
    /\ out' = res
    /\ df' = caller_dataset(df, res)
    /\ IF memo = NoMemo
       THEN \E remember \in BOOLEAN :
                memo' = IF remember
                        THEN [call |-> call', out |-> out', between |-> FALSE]
                        ELSE NoMemo
       ELSE memo' = [memo EXCEPT !.between = @ \/ call' # memo.call]
    /\ UNCHANGED pipeVars
    /\ UNCHANGED appVars

RepeatReportRenegociaciones ==
    \E r \in RepeatRanges :
        RepeatCall("get_renegociaciones_data", r, get_renegociaciones_data(df, r[1], r[2]))

RepeatReportLiquidaciones ==
    \E r \in RepeatRanges :
        RepeatCall("get_liquidaciones_data", r, get_liquidaciones_data(df, r[1], r[2]))

RepeatSummaryRenegociaciones ==
    /\ ~FechaScanRaises(df.cols)
    /\ \E r \in RepeatRanges :
        RepeatCall("apply_renegociaciones_filters", r,
            apply_renegociaciones_filters(preprocess_dates(df), fecha_col(df.cols), r[1], r[2]))

RepeatSummaryLiquidaciones ==
    /\ ~FechaScanRaises(df.cols)
    /\ \E r \in RepeatRanges :
        RepeatCall("apply_liquidaciones_filters", r,
            apply_liquidaciones_filters(preprocess_dates(df), fecha_col(df.cols), r[1], r[2]))

RepeatNext ==
    \/ RepeatReportRenegociaciones
    \/ RepeatReportLiquidaciones
    \/ RepeatSummaryRenegociaciones
    \/ RepeatSummaryLiquidaciones

RepeatSpec == RepeatInit /\ [][RepeatNext]_vars

(***************************************************************************)
(* Properties of the acquisition pipeline                                  *)
(***************************************************************************)
BrowserSucceeded == InTrace("selenium:True")
BrowserFailed == InTrace("selenium:False") \/ InTrace("selenium:raised")
HttpSucceeded == InTrace("direct:True")
HttpFailed == InTrace("direct:False")

\* data/boletin_concursal.csv exists in fs with more than 100 bytes
CacheOver100(fs) == Exists(fs, CACHE) /\ fs[CACHE].size > 100

\* C1: update_data(force_update=False) on a cache file of more than 100
\* bytes invokes neither tier (no browser session, no HTTP request), leaves
\* the data directory as it was and returns the parsed cache.
C1_CacheHit ==
    (pc # "idle" /\ ~force_update /\ CacheOver100(files0))
        => /\ pc = "done"
           /\ trace = <<>>
           /\ session = "none"
           /\ requests_log = <<>>
           /\ files = files0
           /\ result = get_csv_data(files0)

C1_Witness ==
    /\ pc = "done" /\ ~force_update /\ CacheOver100(files0)
    /\ result = Dataset(files0[CACHE])

\* update_data(force_update=True) ended after both tiers failed
BothTiersFailed == pc = "done" /\ force_update /\ BrowserFailed /\ HttpFailed

C3_TierOrder ==
    /\ (pc = "done" /\ (force_update \/ ~CacheOver100(files0)))
            => (Len(trace) >= 2 /\ trace[1] = "selenium")
    /\ pc \in {"navigate", "poll"} => trace = <<"selenium">>
    /\ session # "none" => InTrace("selenium")
    /\ (requests_log # <<>> \/ pc \in {"get", "post"}) => InTrace("direct")
    /\ \A j \in 1..Len(trace) :
        /\ trace[j] = "selenium" => j = 1
        /\ trace[j] \in {"direct", "import_error"}
                => /\ j = 3
                   /\ trace[1] = "selenium"
                   /\ trace[2] \in {"selenium:False", "selenium:raised"}
        /\ trace[j] \in {"selenium:True", "direct:True"}
                => (j = Len(trace) /\ pc = "done")

C3_Witness ==
    /\ pc = "done"
    /\ trace = <<"selenium", "selenium:False", "direct", "direct:True">>

\* C4 as claimed: update_data returns None only when the browser tier
\* failed, the HTTP tier failed and no usable cache exists; a run in which
\* a tier returned True never returns None.
C4_AbsentOnlyOnExhaustion ==
    (pc = "done" /\ result = Absent)
        => /\ BrowserFailed
           /\ HttpFailed \/ InTrace("import_error")
           /\ ~(CacheOver100(files) /\ files[CACHE].ok)

\* C5 as claimed: download_csv_with_selenium returns True only if a file
\* that was not in the data directory before the click appeared after it.
C5_SuccessNeedsNewFile == BrowserSucceeded => NewFileAppeared(files)

\* C6 as claimed: whenever a tier returned True the cache file exists, can
\* be read as a table and has more than 100 bytes; a tier that returned
\* False left no file behind that was not there before.
C6_AllOrNothing ==
    /\ (BrowserSucceeded \/ HttpSucceeded)
            => (CacheOver100(files) /\ files[CACHE].ok)
    /\ (pc = "done" /\ BrowserFailed /\ HttpFailed) => files = files0

\* C7 as claimed: once the browser tier has returned, every browser
\* session it launched has been quit.
C7_SessionQuit ==
    (BrowserSucceeded \/ BrowserFailed) => session # "live"

\* C8 as claimed: a response, to a GET probe or to a POST, is written to
\* the cache file only if it has status 200, a content type suggesting
\* text/CSV, a comma and a line break, and the minimum content length.
C8_WrittenOnlyIfValid ==
    (last.write # "none" \/ last.accepted)
        => (last.resp.exc = "none" /\ GetAccepts(last.resp))

(***************************************************************************)
(* Properties of the record filters                                        *)
(***************************************************************************)
RenegociacionCalls == {"get_renegociaciones_data", "apply_renegociaciones_filters"}
LiquidacionCalls == {"get_liquidaciones_data", "apply_liquidaciones_filters"}

\* the column scan ran to its end and found both columns
ColumnsResolved(cols) ==
    /\ ~ColumnScanRaises(cols)
    /\ procedimiento_col(cols) # 0
    /\ publicacion_col(cols) # 0

\* a filter of the given family was called without a date range on a
\* dataset whose procedure-type and publication-label columns resolve
CalledWithoutDates(fns) ==
    /\ call.fn \in fns
    /\ call.start_date = None /\ call.end_date = None
    /\ ColumnsResolved(df.cols)

\* row j of the dataset is in the result
InResult(j) == \E m \in DOMAIN out.index : out.index[m] = j

\* the procedure type and the publication label of row j of the dataset
Procedure(j) == df.rows[j][procedimiento_col(df.cols)]
Label(j) == df.rows[j][publicacion_col(df.cols)]

\* C9 as claimed: without a date range a row is in the Renegociacion result
\* iff its procedure type contains "renegociación" or "renegociacion", its
\* label contains "resolución de admisibilidad" and its label does not
\* contain "antecedentes resolución de admisibilidad" (ignoring case).
C9_Original ==
    CalledWithoutDates(RenegociacionCalls)
        => \A j \in DOMAIN df.rows :
            InResult(j) <=>
                /\ str_contains(Procedure(j), {"renegociacion_acc", "renegociacion"})
                /\ str_contains(Label(j), {"res_adm_acc"})
                /\ ~str_contains(Label(j), {"ant_res_adm_acc"})

\* C9 as amended: without a date range a row is in the Renegociacion result
\* iff its procedure type contains "renegociación" or "renegociacion", its
\* label contains "resolución de admisibilidad" or "resolucion de
\* admisibilidad", and its label contains neither "antecedentes resolución
\* de admisibilidad" nor "antecedentes resolucion de admisibilidad"
\* (ignoring case); the result keeps the rows as they are, in order.
C9_Renegociacion ==
    CalledWithoutDates(RenegociacionCalls)
        => /\ \A j \in DOMAIN df.rows :
                InResult(j) <=>
                    /\ \/ str_contains(Procedure(j), {"renegociacion_acc"})
                       \/ str_contains(Procedure(j), {"renegociacion"})
                    /\ \/ str_contains(Label(j), {"res_adm_acc"})
                       \/ str_contains(Label(j), {"res_adm"})
                    /\ ~str_contains(Label(j), {"ant_res_adm_acc"})
                    /\ ~str_contains(Label(j), {"ant_res_adm"})
           /\ \A m \in DOMAIN out.index :
                /\ out.rows[m] = df.rows[out.index[m]]
                /\ \A n \in DOMAIN out.index : m < n => out.index[m] < out.index[n]

\* one row kept, and one row dropped because its label is an "antecedentes"
\* label
C9_Witness ==
    /\ CalledWithoutDates(RenegociacionCalls)
    /\ Len(df.rows) = 2
    /\ \E j \in DOMAIN df.rows : InResult(j)
    /\ \E j \in DOMAIN df.rows :
        /\ ~InResult(j)
        /\ str_contains(Procedure(j), {"renegociacion"})
        /\ str_contains(Label(j), {"ant_res_adm_acc"})

FilterCalls == RenegociacionCalls \cup LiquidacionCalls

\* C11: a row whose publication label contains "antecedentes resolución de
\* admisibilidad" (in any letter case) is never in the Renegociacion result,
\* whatever its procedure type, its date and the date range of the call,
\* although the label contains "resolución de admisibilidad" as well.
C11_ExclusionOverrides ==
    (call.fn \in RenegociacionCalls /\ publicacion_col(df.cols) # 0)
        => \A j \in DOMAIN df.rows :
            str_contains(Label(j), {"ant_res_adm_acc"}) => ~InResult(j)

\* a call with a date range that keeps one row and drops a Renegociacion row
\* dated inside the range whose label is the "antecedentes" label
C11_Witness ==
    /\ call.fn \in RenegociacionCalls
    /\ call.start_date = 1 /\ call.end_date = 2
    /\ procedimiento_col(df.cols) # 0 /\ publicacion_col(df.cols) # 0
    /\ \E j \in DOMAIN df.rows : InResult(j)
    /\ \E j \in DOMAIN df.rows :
        /\ str_contains(Procedure(j), {"renegociacion"})
        /\ str_contains(Label(j), {"ant_res_adm_acc"})
        /\ str_contains(Label(j), {"res_adm_acc"})
        /\ df.rows[j][3] = 2
        /\ ~InResult(j)

\* C12: when the header has no procedure-type column or no publication-label
\* column, every filter function returns the empty result, for either
\* category and with or without a date range.
C12_UnresolvedIsEmpty ==
    (call.fn \in FilterCalls
        /\ (procedimiento_col(df.cols) = 0 \/ publicacion_col(df.cols) = 0))
        => out = EmptyFrame

\* a dataset without a procedure-type column whose row would have matched,
\* filtered with a date range
C12_Witness ==
    /\ call.fn \in FilterCalls
    /\ call.start_date = 2 /\ call.end_date = 3
    /\ procedimiento_col(df.cols) = 0
    /\ publicacion_col(df.cols) # 0
    /\ \E j \in DOMAIN df.rows :
        /\ str_contains(df.rows[j][1], {"renegociacion"})
        /\ str_contains(df.rows[j][2], {"res_adm_acc"})
    /\ out = EmptyFrame

\* the date of row j of the dataset, NaT when it could not be parsed
Date(j) == df.rows[j][fecha_col(df.cols)]

\* row j passes the text predicates of the category of the call
TextPass(j) ==
    IF call.fn \in RenegociacionCalls
    THEN renegociaciones_mask(df.rows[j], procedimiento_col(df.cols), publicacion_col(df.cols))
    ELSE liquidaciones_mask(df.rows[j], procedimiento_col(df.cols), publicacion_col(df.cols))

\* the call gave both bounds, the date column resolved, and so did the
\* procedure-type and publication-label columns
DateFilterCalled ==
    /\ call.fn \in FilterCalls
    /\ call.start_date # None /\ call.end_date # None
    /\ ColumnsResolved(df.cols)
    /\ fecha_col(df.cols) # 0

\* both bounds of the call are dates
DateBounds == call.start_date \in Days /\ call.end_date \in Days

\* C13: with a resolved date column and both bounds given as dates, a row
\* with a date is in the result exactly when it passes the text predicates
\* and start_date <= date <= end_date; a row dated on start_date or on
\* end_date is kept.
C13_InclusiveBounds ==
    (DateFilterCalled /\ DateBounds)
        => \A j \in DOMAIN df.rows :
            Date(j) # NaT
                => /\ InResult(j) <=>
                        (TextPass(j) /\ call.start_date <= Date(j)
                                     /\ Date(j) <= call.end_date)
                   /\ (TextPass(j) /\ Date(j) \in {call.start_date, call.end_date}
                            /\ call.start_date <= call.end_date)
                        => InResult(j)

\* a row dated on the last day of a range of two days is kept
C13_Witness ==
    /\ DateFilterCalled
    /\ call.start_date = 1 /\ call.end_date = 2
    /\ \E j \in DOMAIN df.rows :
        TextPass(j) /\ Date(j) = call.end_date /\ InResult(j)

\* both bounds were given and the date column resolved: the date filter is
\* active
FilterActive ==
    DateFilterActive(df, fecha_col(df.cols), call.start_date, call.end_date)

\* the date mask raised during the call
DateMaskRaised ==
    /\ ColumnsResolved(df.cols)
    /\ FilterActive
    /\ date_mask_raises(df, fecha_col(df.cols), call.start_date, call.end_date)

\* row j has a date column and its date could not be parsed
Unparseable(j) == fecha_col(df.cols) # 0 /\ Date(j) = NaT

\* C14 as claimed: when the date filter is active no row with an unparseable
\* date is in the result, also in a dataset that mixes parseable and
\* unparseable dates; when it is not active such a row is kept whenever it
\* passes the text predicates.
C14_Original ==
    (call.fn \in FilterCalls /\ ColumnsResolved(df.cols))
        => \A j \in DOMAIN df.rows :
            Unparseable(j)
                => IF FilterActive THEN ~InResult(j) ELSE InResult(j) <=> TextPass(j)

\* C14 as amended: when the date filter is active and comparing the dates
\* with the bounds does not raise (the bounds are dates, or no row has a
\* parseable date), no row with an unparseable date is in the result, also in
\* a dataset that mixes parseable and unparseable dates; when the filter is
\* not active, or the comparison raises (a bound is a datetime.datetime and
\* some row has a parseable date), such a row is kept exactly when it passes
\* the text predicates.
C14_UnparseableDates ==
    (call.fn \in FilterCalls /\ ColumnsResolved(df.cols))
        => \A j \in DOMAIN df.rows :
            Unparseable(j)
                => IF FilterActive /\ ~DateMaskRaised
                   THEN ~InResult(j)
                   ELSE InResult(j) <=> TextPass(j)

\* a dataset mixing a parseable and an unparseable date, both rows passing
\* the text predicates: the dated row is kept, the other one dropped
C14_Witness ==
    /\ DateFilterCalled /\ DateBounds
    /\ \E j \in DOMAIN df.rows : Date(j) # NaT /\ InResult(j)
    /\ \E j \in DOMAIN df.rows : Date(j) = NaT /\ TextPass(j) /\ ~InResult(j)

\* C15 as claimed: a filter call never lets an exception out, and an
\* exception raised during the call, also one raised by the date mask, makes
\* the call return the empty result.
C15_Original ==
    call.fn \in FilterCalls
        => /\ out # Raised
           /\ (ColumnScanRaises(df.cols) \/ DateMaskRaised) => out = EmptyFrame

\* C15 as amended: a filter call never lets an exception out; an exception
\* raised while the columns are looked up makes the call return the empty
\* result; an exception raised by the date mask is dropped together with the
\* date filter, and the call returns the rows that pass the text predicates,
\* whatever their dates.
C15_ExceptionsHandled ==
    call.fn \in FilterCalls
        => /\ out # Raised
           /\ ColumnScanRaises(df.cols) => out = EmptyFrame
           /\ DateMaskRaised => \A j \in DOMAIN df.rows : InResult(j) <=> TextPass(j)

\* the date mask raised and a row dated before start_date is in the result
C15_Witness ==
    /\ call.fn \in FilterCalls
    /\ DateMaskRaised
    /\ call.start_date = 2
    /\ \E j \in DOMAIN df.rows : Date(j) = 1 /\ InResult(j)

\* a record of the fixture with procedure type "Renegociación - Persona
\* Deudora" and label "Resolución de admisibilidad"
IsRenegociacionRecord(j) ==
    df.rows[j][2] = "reneg_acc" /\ df.rows[j][6] = "res_adm_acc"

\* row j is in the result r
In(r, j) == \E m \in DOMAIN r.index : r.index[m] = j

\* C16: on the fixture of get_sample_data both category results are not
\* empty and no record is in both: the records with "Renegociación - Persona
\* Deudora" and "Resolución de admisibilidad" are in the Renegociacion result
\* and not in the Liquidacion Voluntaria result, every other record is in the
\* Liquidacion Voluntaria result only.
C16_SampleFixture ==
    (df = sample_data /\ call.fn \in FilterCalls
        /\ call.start_date = None /\ call.end_date = None)
        => LET r == get_renegociaciones_data(df, None, None)
               l == get_liquidaciones_data(df, None, None)
           IN  /\ out = IF call.fn \in RenegociacionCalls THEN r ELSE l
               /\ r.index # <<>> /\ l.index # <<>>
               /\ \A j \in DOMAIN df.rows :
                    /\ In(r, j) <=> IsRenegociacionRecord(j)
                    /\ In(l, j) <=> ~IsRenegociacionRecord(j)

\* the Liquidacion Voluntaria view of the fixture holds records 2 and 4
C16_Witness ==
    /\ df = sample_data
    /\ call.fn \in LiquidacionCalls
    /\ call.start_date = None /\ call.end_date = None
    /\ out.index = <<2, 4>>

(***************************************************************************)
(* Further properties of the acquisition pipeline                          *)
(***************************************************************************)
\* the HTTP tier failed, or its module could not be imported
HttpUnavailable == HttpFailed \/ InTrace("import_error")

\* C17: no run of update_data calls get_sample_data or puts synthetic
\* records into the data directory or into its result; when both tiers have
\* failed and there is no cache file the result is None.
C17_NoSampleData ==
    /\ ~InTrace("get_sample_data")
    /\ \A n \in DOMAIN files : files[n].src # "sample"
    /\ result.kind = "DataFrame" => result.of.src # "sample"
    /\ (pc = "done" /\ BrowserFailed /\ HttpUnavailable /\ ~Exists(files, CACHE))
            => result = Absent

\* both tiers failed on an empty data directory and None was returned
C17_Witness ==
    /\ pc = "done" /\ BrowserFailed /\ HttpFailed
    /\ DOMAIN files0 = {} /\ DOMAIN files = {}
    /\ Len(requests_log) = 1 + NumEndpoints + NumPostVariants
    /\ result = Absent

\* C18: update_data always returns: whatever the tiers do (return True,
\* return False, raise, fail to import) and whatever the cache, its result is
\* a dataset or None, and no step of it is left without a continuation.
C18_AlwaysReturns ==
    /\ result.kind \in {"running", "DataFrame", "None"}
    /\ pc = "done" <=> result.kind \in {"DataFrame", "None"}
    /\ pc # "done" => ENABLED Next

\* the browser tier raised, the HTTP module could not be imported, and
\* update_data returned None
C18_Witness ==
    /\ pc = "done"
    /\ trace = <<"selenium", "selenium:raised", "import_error">>
    /\ result = Absent

\* the button was found and did not become clickable within the wait
NotClickable == nav.click # "none" /\ ~nav.clickable

\* C19 as claimed: when the button is found but does not become clickable,
\* download_csv_with_selenium does not return True.
C19_Original == NotClickable => ~BrowserSucceeded

\* C19 as amended: when the button is found but does not become clickable the
\* tier clicks it anyway.  It returns False at once only when the click and
\* the JavaScript click both fail; when a click goes through it waits for the
\* download as with a clickable button, returns True only with a file of more
\* than 10000 bytes at the cache path, and returns False only after the full
\* wait.
C19_ClicksAnyway ==
    NotClickable
        => /\ nav.click = "failed" => (BrowserFailed /\ i = 0)
           /\ nav.click # "failed"
                => /\ pc = "poll" \/ BrowserSucceeded \/ BrowserFailed
                   /\ BrowserSucceeded
                        => (Exists(files, CACHE) /\ files[CACHE].size > MinDownloadSize)
                   /\ (BrowserFailed /\ pc = "fallback") => i = download_wait_time

\* the button never became clickable, the click went through, the site sent
\* a file and the tier returned True
C19_Witness ==
    /\ NotClickable
    /\ nav.click = "direct"
    /\ BrowserSucceeded
    /\ NewFileAppeared(files)

\* C20 as claimed: within one call of download_csv_direct no URL, the source
\* page included, is requested twice.
C20_Original ==
    \A a, b \in DOMAIN requests_log :
        a < b => requests_log[a][2] # requests_log[b][2]

\* C20 as amended: within one call of download_csv_direct no request is
\* repeated: the source page gets one GET, the first request of the call;
\* each of the six endpoints gets at most one GET, in order; then the source
\* page URL gets at most five POSTs, one for each form-data variant, in
\* order.
C20_NoRetry ==
    /\ Len(requests_log) <= 1 + NumEndpoints + NumPostVariants
    /\ \A a, b \in DOMAIN requests_log :
        a < b => requests_log[a] # requests_log[b]
    /\ \A a \in DOMAIN requests_log :
        IF a = 1
        THEN requests_log[a] = Request("GET", 0, 0)
        ELSE IF a <= 1 + NumEndpoints
        THEN requests_log[a] = Request("GET", a - 1, 0)
        ELSE requests_log[a] = Request("POST", 0, a - 1 - NumEndpoints)

\* a call that made every request: 1 GET of the source page, 6 probes, 5 POSTs
C20_Witness ==
    /\ pc = "done"
    /\ HttpFailed
    /\ Len(requests_log) = 1 + NumEndpoints + NumPostVariants

C22_SuccessOverMinimum ==
    BrowserSucceeded => (Exists(files, CACHE) /\ files[CACHE].size > MinDownloadSize)

\* True came from the final check after the full wait, by copying the
\* largest file, of 10001 bytes, to the cache path
C22_Witness ==
    /\ BrowserSucceeded
    /\ i = download_wait_time
    /\ ~Exists(files0, CACHE)
    /\ \E n \in DOMAIN files \ {CACHE} : files[n].src = "browser"
    /\ files[CACHE].size = MinDownloadSize + 1

\* C23: in download_csv_direct an error in one attempt never prevents the
\* remaining attempts: once the source page was loaded, the call ends either
\* on an accepted response or after all six endpoint GETs and all five POST
\* variants were issued.
C23_EveryAttemptMade ==
    (pc = "done" /\ Len(requests_log) > 1)
        => \/ last.accepted
           \/ Len(requests_log) = 1 + NumEndpoints + NumPostVariants

\* C24: in download_csv_with_selenium the JavaScript click is attempted if and
\* only if the regular click raised; when both clicks fail the tier returns
\* False without entering the polling loop, and when either click succeeds
\* the polling loop starts.
C24_ScriptedClick ==
    [][(pc = "navigate" /\ nav'.click # "none")
        => /\ (nav'.js # "not_attempted") <=> (nav'.direct = "raised")
           /\ (nav'.direct = "raised" /\ nav'.js = "raised")
                => (pc' = "fallback" /\ trace' = Append(trace, "selenium:False") /\ i' = 0)
           /\ (nav'.direct = "ok" \/ nav'.js = "ok")
                => (pc' = "poll" /\ i' = 0 /\ trace' = trace)]_vars

\* the regular click raised, the JavaScript click went through and the
\* polling loop ran
C24_Witness ==
    /\ nav.direct = "raised"
    /\ nav.js = "ok"
    /\ pc = "poll"
    /\ i > 0

\* C25: when the GET of the source page times out, cannot connect or returns
\* an HTTP error status, download_csv_direct returns False with no further
\* request and leaves the cache file as it was; the endpoint GETs are issued
\* only after a source page that loaded, and the POSTs only after all six
\* endpoint GETs were issued and none of them led to success.
C25_WarmUpGate ==
    [][/\ (pc = "fallback" /\ requests_log' # requests_log)
            => /\ requests_log' = <<Request("GET", 0, 0)>>
               /\ IF last'.resp.exc \in {"Timeout", "ConnectionError", "HTTPError"}
                  THEN /\ pc' = "done"
                       /\ trace' = trace \o <<"direct", "direct:False">>
                       /\ files' = files
                  ELSE last'.resp.exc = "none" => pc' = "get"
       /\ (pc # "fallback" /\ requests_log' # requests_log)
            => /\ requests_log[1] = Request("GET", 0, 0)
               /\ Len(requests_log') = Len(requests_log) + 1
               /\ ~InTrace("direct:False")
               /\ requests_log'[Len(requests_log')][1] = "POST"
                    => /\ \A u \in 1..NumEndpoints :
                            \E a \in DOMAIN requests_log :
                                requests_log[a] = Request("GET", u, 0)
                       /\ ~HttpSucceeded]_vars

\* the source page answered 404: the call is over after one request
C25_Witness ==
    /\ last.resp.exc = "HTTPError"
    /\ pc = "done"
    /\ HttpFailed
    /\ requests_log = <<Request("GET", 0, 0)>>

\* C26: after the click the polling loop of download_csv_with_selenium makes
\* at most 60 iterations and the tier then returns True or False, whether no
\* file ever appears, a file stays undersized, or a file grows on every poll.
C26_PollTerminates ==
    /\ [](i <= download_wait_time)
    /\ (pc = "poll") ~> (pc # "poll" /\ (BrowserSucceeded \/ InTrace("selenium:False")))

\* the directory changed in each of the 60 iterations (a file appeared and
\* kept growing) and the tier returned
C26_Witness ==
    /\ grew
    /\ i = download_wait_time
    /\ pc # "poll"
    /\ BrowserSucceeded \/ InTrace("selenium:False")

\* what the filter function fn returns for dataset d and the range (s, e)
Returned(fn, d, s, e) ==
    CASE fn = "get_renegociaciones_data" -> get_renegociaciones_data(d, s, e)
      [] fn = "get_liquidaciones_data" -> get_liquidaciones_data(d, s, e)
      [] fn = "apply_renegociaciones_filters" ->
            apply_renegociaciones_filters(preprocess_dates(d), fecha_col(d.cols), s, e)
      [] fn = "apply_liquidaciones_filters" ->
            apply_liquidaciones_filters(preprocess_dates(d), fecha_col(d.cols), s, e)

\* C27: the date range is applied only when the date column is resolved and
\* both start_date and end_date are given: a call with one bound, with no
\* bound, or on a dataset without date column returns what the same call
\* without date range returns.
C27_RangeNeedsBothBounds ==
    (/\ call.fn \in FilterCalls
     /\ \/ call.start_date = None
        \/ call.end_date = None
        \/ fecha_col(df.cols) = 0)
        => out = Returned(call.fn, df, None, None)

\* a call with start_date only returned a row dated before start_date
C27_Witness ==
    /\ call.fn \in FilterCalls
    /\ call.start_date = 2
    /\ call.end_date = None
    /\ fecha_col(df.cols) # 0
    /\ \E j \in DOMAIN out.rows : out.rows[j][fecha_col(df.cols)] = 1

\* C28: download_boletin_csv always ends by returning True or False and never
\* raises, also when setup_chrome_driver returned None.
C28_ReturnsBoolean ==
    pc = "boletin_done" => result \in {Bool(TRUE), Bool(FALSE)}

\* the function of the other page for the same category
Counterpart(fn) ==
    CASE fn = "get_renegociaciones_data" -> "apply_renegociaciones_filters"
      [] fn = "apply_renegociaciones_filters" -> "get_renegociaciones_data"
      [] fn = "get_liquidaciones_data" -> "apply_liquidaciones_filters"
      [] fn = "apply_liquidaciones_filters" -> "get_liquidaciones_data"

\* C29: the Reports-page filters and the Summary-page filters agree: for
\* every dataset that preprocess_dates accepts, and every date range,
\* get_renegociaciones_data(df, s, e) returns the rows that
\* apply_renegociaciones_filters returns on preprocess_dates(df) with the
\* same s and e, and likewise for the two Liquidacion functions.
C29_PagesAgree ==
    (call.fn \in FilterCalls /\ ~FechaScanRaises(df.cols))
        => out = Returned(Counterpart(call.fn), df, call.start_date, call.end_date)

\* a Reports-page call with a date range that kept some rows and dropped others
C29_Witness ==
    /\ call.fn = "get_liquidaciones_data"
    /\ call.start_date \in Days /\ call.end_date \in Days
    /\ out.rows # <<>>
    /\ Len(out.rows) < Len(df.rows)

\* C30: a forced refresh is consumed by one load: once
\* update_data_section(force_update=True) has run load_data the session flag
\* force_update is no longer true, whatever load_data returned, so that a
\* later load_data of update_data_section(force_update=False) calls
\* update_data with force_update = False.
C30_ForcedOnce ==
    /\ session_state.force_update # "True"
    /\ InTrace("update_data_section:False") => force_update = FALSE

====
